---------------------------- MODULE Spec2Model ----------------------------
(***************************************************************************)
(* Model of the simulated acquisition source: the two data-thread classes  *)
(* SourceSimThread (Source/SourceSimThread.cpp) and SourceThread           *)
(* (Source/SourceThread.cpp).                                              *)
(*                                                                         *)
(* The state is the set of owned collections (streams, channels, sync      *)
(* lines, sources, buffers), the configuration fields, the position of the *)
(* control thread inside the handler it is executing, and the state of     *)
(* every generator thread.  A rebuild and a start/stop call are modelled   *)
(* statement by statement, so that the intermediate states a reader or a   *)
(* generator thread can observe are states of the model.                   *)
(*                                                                         *)
(* Text is modelled as a sequence of one-character strings, so that        *)
(* concatenation and the decimal conversion String(int) are computed.      *)
(* Descriptions and the bit-volts factor of the channel descriptors are    *)
(* constant text that no operation reads; they are left out.               *)
(*                                                                         *)
(* Not modelled: sn->update(), by which SourceThread asks the host to      *)
(* rebuild the host's own arrays; SourceThread::timerCallback, whose timer *)
(* no code of these files starts; updateClkFreq / updateClkEnable, which   *)
(* change no state modelled here.                                          *)
(***************************************************************************)
EXTENDS Integers, Sequences, FiniteSets, TLC

(***************************************************************************)
(* Bounds of the model.                                                    *)
(***************************************************************************)
\* largest probe count a configuration is drawn with (one above 16 letters)
MaxProbes == 17
\* largest channel count per probe / per auxiliary device
MaxChannels == 1
\* largest auxiliary device count
MaxAux == 1
\* largest number of sources while generator threads are modelled
RunMaxSources == 2
\* number of allocation epochs told apart (object identity of a rebuild)
NumEpochs == 2

(***************************************************************************)
(* Program constants.                                                      *)
(***************************************************************************)
NUM_PROBES == 6
NUM_NI_DEVICES == 1
AP_CHANNELS == 384
NIDAQ_CHANNELS == 8

probeNames ==
    << "A", "B", "C", "D", "E", "F", "G", "H",
       "I", "J", "K", "L", "M", "N", "O", "P" >>

VARIABLES
    impl,                  \* "Sim" (SourceSimThread) or "Legacy" (SourceThread)
    settings,              \* the configuration fields / the settings last read
    dataStreams,           \* OwnedArray<DataStream>
    eventChannels,         \* OwnedArray<EventChannel>
    continuousChannels,    \* OwnedArray<ContinuousChannel>
    spikeChannels,         \* OwnedArray<SpikeChannel>
    devices,               \* OwnedArray<DeviceInfo>
    configurationObjects,  \* OwnedArray<ConfigurationObject>
    sources,               \* OwnedArray of sources, each with its thread state
    sourceBuffers,         \* OwnedArray<DataBuffer>
    epoch,                 \* allocation epoch of the objects of the last rebuild
    pc,                    \* position of the control thread
    dataThread,            \* the DataThread's own thread (SourceThread only)
    cleared,               \* buffers cleared by the start call in progress
    launchFailed,          \* a thread launch failed in the last start call
    startRet,              \* value returned by the last start call
    crashed,               \* the process dereferenced a null pointer
    script                 \* number of control calls made (scripted runs only)

vars ==
    << impl, settings, dataStreams, eventChannels, continuousChannels,
       spikeChannels, devices, configurationObjects, sources, sourceBuffers,
       epoch, pc, dataThread, cleared, launchFailed, startRet, crashed,
       script >>

collections ==
    << dataStreams, eventChannels, continuousChannels, spikeChannels,
       devices, configurationObjects, sources, sourceBuffers >>

threadVars == << dataThread, cleared, launchFailed, startRet, crashed >>

(***************************************************************************)
(* Text.                                                                   *)
(***************************************************************************)
Digit(d) ==
    << "0", "1", "2", "3", "4", "5", "6", "7", "8", "9" >>[d + 1]

RECURSIVE DecimalString(_)
\* juce::String(int): the decimal digits of a non-negative number
DecimalString(n) ==
    IF n < 10 THEN << Digit(n) >>
    ELSE DecimalString(n \div 10) \o << Digit(n % 10) >>

\* StringArray::operator[]: the element, or the empty string out of range
ProbeNameAt(i) ==
    IF i >= 0 /\ i < Len(probeNames) THEN << probeNames[i + 1] >> ELSE << >>

ApBandName(i) == << "P", "r", "o", "b", "e", "-" >> \o ProbeNameAt(i) \o << "-", "A", "P" >>

LfpBandName(i) == << "P", "r", "o", "b", "e", "-" >> \o ProbeNameAt(i) \o << "-", "L", "F", "P" >>

NidaqName(i) == << "D", "e", "v" >> \o DecimalString(i)

ChannelName(j) == << "C", "H" >> \o DecimalString(j + 1)

(***************************************************************************)
(* The topology: the eight collections as one record.                      *)
(***************************************************************************)
Topology ==
    [ dataStreams          |-> dataStreams,
      eventChannels        |-> eventChannels,
      continuousChannels   |-> continuousChannels,
      spikeChannels        |-> spikeChannels,
      devices              |-> devices,
      configurationObjects |-> configurationObjects,
      sources              |-> sources,
      sourceBuffers        |-> sourceBuffers ]

EmptyTopology ==
    [ dataStreams          |-> << >>,
      eventChannels        |-> << >>,
      continuousChannels   |-> << >>,
      spikeChannels        |-> << >>,
      devices              |-> << >>,
      configurationObjects |-> << >>,
      sources              |-> << >>,
      sourceBuffers        |-> << >> ]

SetTopology(T) ==
    /\ dataStreams' = T.dataStreams
    /\ eventChannels' = T.eventChannels
    /\ continuousChannels' = T.continuousChannels
    /\ spikeChannels' = T.spikeChannels
    /\ devices' = T.devices
    /\ configurationObjects' = T.configurationObjects
    /\ sources' = T.sources
    /\ sourceBuffers' = T.sourceBuffers

\* OwnedArray::getLast on the index level: 0 stands for nullptr
LastIndex(arr) == Len(arr)

(***************************************************************************)
(* Statements of a rebuild.  Each is a record; ApplyOp executes one.       *)
(***************************************************************************)
ClearOp(coll) == [ op |-> "clear", coll |-> coll ]

AddStreamOp(name, identifier, rate) ==
    [ op |-> "addStream", name |-> name, identifier |-> identifier, rate |-> rate ]

AddSourceOp(type, name, numChannels, rate) ==
    [ op |-> "addSource", type |-> type, name |-> name,
      numChannels |-> numChannels, rate |-> rate ]

AddBufferOp(numChannels, size) ==
    [ op |-> "addBuffer", numChannels |-> numChannels, size |-> size ]

\* new DataBuffer(sources.getLast()->numChannels, size)
AddBufferOfLastOp(size) == [ op |-> "addBufferOfLast", size |-> size ]

BindOp == [ op |-> "bind" ]

AddChannelOp(type, name) == [ op |-> "addChannel", type |-> type, name |-> name ]

AddSyncOp(name) == [ op |-> "addSync", name |-> name ]

\* new DataStream(settings)
NewStream(o, e) ==
    [ name |-> o.name, identifier |-> o.identifier,
      sample_rate |-> o.rate, epoch |-> e ]

\* new SimulatedSource(name, channels, rate, type) / new NPX_AP_BAND(channels) ...
\* a new source is not running; its buffer pointer is not yet set (0)
NewSource(o, e) ==
    [ type |-> o.type, name |-> o.name, numChannels |-> o.numChannels,
      sampleRate |-> o.rate, buffer |-> 0, epoch |-> e,
      alive |-> FALSE, shouldExit |-> FALSE, started |-> FALSE ]

\* new DataBuffer(channels, size): a fresh object, told apart by its id
NewBuffer(id, numChannels, size, e) ==
    [ id |-> id, numChannels |-> numChannels, size |-> size, epoch |-> e,
      written |-> FALSE ]

\* a wrong binding: every source is bound to the first buffer
BindFirstBuffer(src, bufs) ==
    [ src EXCEPT !.buffer = bufs[1].id ]

\* sources.getLast()->buffer = sourceBuffers.getLast()
BindBuffer(src, bufs) ==
    [ src EXCEPT !.buffer = bufs[LastIndex(bufs)].id ]

\* new ContinuousChannel({type, name, ..., dataStreams->getLast()})
NewChannel(o, T, e) ==
    [ type |-> o.type, name |-> o.name,
      stream |-> LastIndex(T.dataStreams), epoch |-> e ]

\* new EventChannel({TTL, name, ..., dataStreams->getLast()})
NewSyncLine(o, T, e) ==
    [ type |-> "TTL", name |-> o.name,
      stream |-> LastIndex(T.dataStreams), epoch |-> e ]

ApplyOp(o, T, e) ==
    CASE o.op = "clear" -> [ T EXCEPT ![o.coll] = << >> ]
      [] o.op = "addStream" ->
            [ T EXCEPT !.dataStreams = Append(@, NewStream(o, e)) ]
      [] o.op = "addSource" ->
            [ T EXCEPT !.sources = Append(@, NewSource(o, e)) ]
      [] o.op = "addBuffer" ->
            [ T EXCEPT !.sourceBuffers =
                Append(@, NewBuffer(Len(@) + 1, o.numChannels, o.size, e)) ]
      [] o.op = "addBufferOfLast" ->
            [ T EXCEPT !.sourceBuffers =
                Append(@, NewBuffer(Len(@) + 1,
                                    T.sources[LastIndex(T.sources)].numChannels,
                                    o.size, e)) ]
      [] o.op = "bind" ->
            [ T EXCEPT !.sources[LastIndex(T.sources)] =
                BindBuffer(@, T.sourceBuffers) ]
      [] o.op = "addChannel" ->
            [ T EXCEPT !.continuousChannels = Append(@, NewChannel(o, T, e)) ]
      [] o.op = "addSync" ->
            [ T EXCEPT !.eventChannels = Append(@, NewSyncLine(o, T, e)) ]

RECURSIVE ApplyOps(_, _, _)
ApplyOps(ops, T, e) ==
    IF ops = << >> THEN T
    ELSE ApplyOps(Tail(ops), ApplyOp(Head(ops), T, e), e)

(***************************************************************************)
(* SourceSimThread::updateSettings as a statement list.                    *)
(***************************************************************************)
\* a rebuild that forgets to clear the buffer list
SimClearOpsKeepBuffers ==
    << ClearOp("dataStreams"), ClearOp("eventChannels"),
       ClearOp("continuousChannels"), ClearOp("spikeChannels"),
       ClearOp("devices"), ClearOp("configurationObjects"),
       ClearOp("sources") >>

SimClearOps ==
    << ClearOp("dataStreams"), ClearOp("eventChannels"),
       ClearOp("continuousChannels"), ClearOp("spikeChannels"),
       ClearOp("devices"), ClearOp("configurationObjects"),
       ClearOp("sources"), ClearOp("sourceBuffers") >>

\* for (int j = 0; j < n; j++) continuousChannels->add(...)
ChannelOps(type, n) ==
    [ j \in 1 .. (IF n > 0 THEN n ELSE 0) |-> AddChannelOp(type, ChannelName(j - 1)) ]

SimApOps(i, s) ==
    << AddStreamOp(ApBandName(i),
                   << "S", "P" >> \o DecimalString(i) \o << "_", "A", "P" >>,
                   30000),
       AddSourceOp("AP_BAND", ApBandName(i), s.channelsPerProbe, 30000),
       AddBufferOp(s.channelsPerProbe, 48000),
       BindOp >>
    \o ChannelOps("ELECTRODE", s.channelsPerProbe)
    \o << AddSyncOp("AP Sync Line") >>

SimLfpOps(i, s) ==
    << AddStreamOp(LfpBandName(i),
                   << "S", "P" >> \o DecimalString(i) \o << "_", "L", "F", "P" >>,
                   2500),
       AddSourceOp("LFP_BAND", LfpBandName(i), s.channelsPerProbe, 2500),
       AddBufferOp(s.channelsPerProbe, 48000),
       BindOp >>
    \o ChannelOps("ELECTRODE", s.channelsPerProbe)
    \o << AddSyncOp("LFP Sync Line") >>

SimNidaqOps(i, s) ==
    << AddStreamOp(NidaqName(i), << "N", "I" >> \o DecimalString(i), 30000),
       AddSourceOp("NIDAQ", NidaqName(i), s.channelsPerNIDAQ, 30000),
       AddBufferOp(s.channelsPerNIDAQ, 48000),
       BindOp >>
    \o ChannelOps("ADC", s.channelsPerNIDAQ)
    \o << AddSyncOp("NIDAQ Sync Line") >>

RECURSIVE SimProbeLoop(_, _)
\* for (int i = 0; i < settings.numProbes; i++)
SimProbeLoop(i, s) ==
    IF i < s.numProbes
    THEN SimApOps(i, s) \o SimLfpOps(i, s) \o SimProbeLoop(i + 1, s)
    ELSE << >>

RECURSIVE SimNidaqLoop(_, _)
\* for (int i = 0; i < settings.numNIDAQ; i++)
SimNidaqLoop(i, s) ==
    IF i < s.numNIDAQ
    THEN SimNidaqOps(i, s) \o SimNidaqLoop(i + 1, s)
    ELSE << >>

SimAddOps(s) == SimProbeLoop(0, s) \o SimNidaqLoop(0, s)

(***************************************************************************)
(* SourceThread::generateBuffers as a statement list.                      *)
(***************************************************************************)
LegacyClearOps == << ClearOp("sources"), ClearOp("sourceBuffers") >>

\* the name and the rate of a band class are set by its own constructor
LegacySourceOps(type, n) ==
    << AddSourceOp(type, << >>, n, 0), AddBufferOfLastOp(1000), BindOp >>

RECURSIVE LegacyProbeLoop(_, _)
LegacyProbeLoop(i, s) ==
    IF i < s.numProbes
    THEN LegacySourceOps("NPX_AP_BAND", s.channelsPerProbe)
         \o LegacySourceOps("NPX_LFP_BAND", s.channelsPerProbe)
         \o LegacyProbeLoop(i + 1, s)
    ELSE << >>

RECURSIVE LegacyNidaqLoop(_, _)
LegacyNidaqLoop(i, s) ==
    IF i < s.numNIDAQ
    THEN LegacySourceOps("NIDAQ", s.channelsPerNIDAQ) \o LegacyNidaqLoop(i + 1, s)
    ELSE << >>

LegacyAddOps(s) == LegacyProbeLoop(0, s) \o LegacyNidaqLoop(0, s)

ClearOps == IF impl = "Sim" THEN SimClearOps ELSE LegacyClearOps

\* a probe loop that emits the LFP band before the AP band
ProbeBodyLfpFirst(i, s) ==
    IF impl = "Sim" THEN SimLfpOps(i, s) \o SimApOps(i, s)
    ELSE LegacySourceOps("NPX_LFP_BAND", s.channelsPerProbe)
         \o LegacySourceOps("NPX_AP_BAND", s.channelsPerProbe)

\* the statements of one pass through the probe loop / the device loop
ProbeBody(i, s) ==
    IF impl = "Sim" THEN SimApOps(i, s) \o SimLfpOps(i, s)
    ELSE LegacySourceOps("NPX_AP_BAND", s.channelsPerProbe)
         \o LegacySourceOps("NPX_LFP_BAND", s.channelsPerProbe)

NidaqBody(i, s) ==
    IF impl = "Sim" THEN SimNidaqOps(i, s)
    ELSE LegacySourceOps("NIDAQ", s.channelsPerNIDAQ)

(***************************************************************************)
(* Configurations.                                                         *)
(***************************************************************************)
Config(p, c, n, d) ==
    [ numProbes |-> p, channelsPerProbe |-> c, numNIDAQ |-> n, channelsPerNIDAQ |-> d ]

\* the settings the editor can hand to updateSettings: any integers, here
\* from -1 up to the bounds
SimConfigs ==
    { Config(p, c, n, d) : p \in -1 .. MaxProbes, c \in -1 .. MaxChannels,
                           n \in -1 .. MaxAux, d \in -1 .. MaxChannels }

\* SourceThread's constructor initialisers
DefaultConfig == Config(NUM_PROBES, AP_CHANNELS, NUM_NI_DEVICES, NIDAQ_CHANNELS)

LegacyValues == -1 .. MaxChannels + 1

LegacyConfigs ==
    { Config(p, c, n, d) : p \in LegacyValues \cup {NUM_PROBES},
                           c \in LegacyValues \cup {AP_CHANNELS},
                           n \in -1 .. MaxAux \cup {NUM_NI_DEVICES},
                           d \in LegacyValues \cup {NIDAQ_CHANNELS} }

\* the control thread's position: the handler part, the loop variable i and
\* the statement n of the loop body
At(a, i, n) == [ at |-> a, i |-> i, n |-> n ]

Idle == At("idle", 0, 0)

\* the loop conditions i < numProbes and i < numNIDAQ, from the probe loop on
ProbeLoopHead(i, s) ==
    IF i < s.numProbes THEN At("probe", i, 1)
    ELSE IF 0 < s.numNIDAQ THEN At("nidaq", 0, 1) ELSE Idle

NidaqLoopHead(i, s) ==
    IF i < s.numNIDAQ THEN At("nidaq", i, 1) ELSE Idle

NoThread == [ alive |-> FALSE, shouldExit |-> FALSE, started |-> FALSE ]

NextEpoch == (epoch + 1) % NumEpochs

(***************************************************************************)
(* Rebuild, statement by statement.                                        *)
(***************************************************************************)
\* SourceSimThread::updateSettings is entered
UpdateSettings ==
    /\ impl = "Sim"
    /\ pc = Idle
    /\ ~crashed
    /\ pc' = At("clearing", 0, 1)
    /\ epoch' = NextEpoch
    /\ UNCHANGED << impl, settings, collections, threadVars >>

\* SourceThread::update<Field>(value): the field is set, generateBuffers entered
LegacyUpdate(field, value, C) ==
    /\ impl = "Legacy"
    /\ pc = Idle
    /\ ~crashed
    /\ [ settings EXCEPT ![field] = value ] \in C
    /\ settings' = [ settings EXCEPT ![field] = value ]
    /\ pc' = At("clearing", 0, 1)
    /\ epoch' = NextEpoch
    /\ UNCHANGED << impl, collections, threadVars >>

UpdateNPXChannels(C) == \E v \in LegacyValues : LegacyUpdate("channelsPerProbe", v, C)

UpdateNumProbes(C) == \E v \in LegacyValues : LegacyUpdate("numProbes", v, C)

UpdateNIDAQChannels(C) == \E v \in LegacyValues : LegacyUpdate("channelsPerNIDAQ", v, C)

UpdateNIDAQDeviceCount(C) == \E v \in LegacyValues : LegacyUpdate("numNIDAQ", v, C)

\* what follows the last clear: SourceSimThread reads the settings,
\* SourceThread goes on to the loops
AfterClear ==
    IF impl = "Sim" THEN At("getSettings", 0, 0) ELSE ProbeLoopHead(0, settings)

\* one collection->clear()
ClearStep ==
    /\ pc.at = "clearing"
    /\ SetTopology(ApplyOp(ClearOps[pc.n], Topology, epoch))
    /\ pc' = IF pc.n < Len(ClearOps) THEN At("clearing", 0, pc.n + 1) ELSE AfterClear
    /\ UNCHANGED << impl, settings, epoch, threadVars >>

\* sse->getSettings(settings)
GetSettings(C) ==
    /\ pc.at = "getSettings"
    /\ \E s \in C :
          /\ settings' = s
          /\ pc' = ProbeLoopHead(0, s)
    /\ UNCHANGED << impl, collections, epoch, threadVars >>

\* one statement of the body of the probe loop
ProbeStep ==
    /\ pc.at = "probe"
    /\ LET body == ProbeBody(pc.i, settings) IN
          /\ SetTopology(ApplyOp(body[pc.n], Topology, epoch))
          /\ pc' = IF pc.n < Len(body) THEN At("probe", pc.i, pc.n + 1)
                   ELSE ProbeLoopHead(pc.i + 1, settings)
    /\ UNCHANGED << impl, settings, epoch, threadVars >>

\* one statement of the body of the device loop
NidaqStep ==
    /\ pc.at = "nidaq"
    /\ LET body == NidaqBody(pc.i, settings) IN
          /\ SetTopology(ApplyOp(body[pc.n], Topology, epoch))
          /\ pc' = IF pc.n < Len(body) THEN At("nidaq", pc.i, pc.n + 1)
                   ELSE NidaqLoopHead(pc.i + 1, settings)
    /\ UNCHANGED << impl, settings, epoch, threadVars >>

(***************************************************************************)
(* Construction.  SourceSimThread's constructor builds nothing; the host   *)
(* calls updateSettings.  SourceThread's constructor sets the fields and   *)
(* calls generateBuffers: the initial state is its entry.                  *)
(***************************************************************************)
InitCommon ==
    /\ dataStreams = << >>
    /\ eventChannels = << >>
    /\ continuousChannels = << >>
    /\ spikeChannels = << >>
    /\ devices = << >>
    /\ configurationObjects = << >>
    /\ sources = << >>
    /\ sourceBuffers = << >>
    /\ epoch = 0
    /\ dataThread = NoThread
    /\ cleared = {}
    /\ launchFailed = FALSE
    /\ startRet = "none"
    /\ crashed = FALSE
    /\ script = 0

Init ==
    /\ InitCommon
    /\ \/ /\ impl = "Sim"
          /\ settings = Config(0, 0, 0, 0)
          /\ pc = Idle
       \/ /\ impl = "Legacy"
          /\ settings = DefaultConfig
          /\ pc = At("clearing", 0, 1)

(***************************************************************************)
(* Threads.  A thread is alive (its handle is set) or not, carries the     *)
(* exit flag, and remembers whether it was ever launched.                  *)
(***************************************************************************)
\* juce::Thread::startThread.  A thread that is not running is launched
\* (ok: the launch succeeds) with its exit flag cleared.  On a running thread
\* the call launches nothing; whether it clears a pending exit flag depends
\* on the library version (resets).
StartThread(t, ok, resets) ==
    IF t.alive
    THEN [ t EXCEPT !.shouldExit = IF resets THEN FALSE ELSE @ ]
    ELSE [ t EXCEPT !.shouldExit = FALSE, !.alive = ok, !.started = @ \/ ok ]

\* a stop that does not set the exit flag
SignalIgnored(t) == t

\* a stop that toggles the exit flag where it should set it
SignalToggles(t) == [ t EXCEPT !.shouldExit = ~@ ]

\* juce::Thread::signalThreadShouldExit
SignalThreadShouldExit(t) == [ t EXCEPT !.shouldExit = TRUE ]

\* DataBuffer::clear on the buffer a pointer refers to
ClearBuffer(bufs, id) ==
    [ k \in 1 .. Len(bufs) |->
        IF bufs[k].id = id THEN [ bufs[k] EXCEPT !.written = FALSE ] ELSE bufs[k] ]

\* a block of samples is written to the buffer a pointer refers to
WriteBuffer(bufs, id) ==
    [ k \in 1 .. Len(bufs) |->
        IF bufs[k].id = id THEN [ bufs[k] EXCEPT !.written = TRUE ] ELSE bufs[k] ]

\* the buffers the clearing part of startAcquisition visits, in order:
\* SourceSimThread every source's buffer, SourceThread the last buffer only
BuffersToClear ==
    IF impl = "Sim" THEN [ k \in 1 .. Len(sources) |-> sources[k].buffer ]
    ELSE << LastIndex(sourceBuffers) >>

\* the value startAcquisition returns ("true" / "false"), whatever the launches did
StartResult(failed) == "true"

AfterStartClear ==
    IF Len(sources) > 0 THEN At("startLaunch", 0, 1)
    ELSE IF impl = "Sim" THEN At("startReturn", 0, 0) ELSE At("startSelf", 0, 0)

\* startAcquisition is entered
StartAcquisition ==
    /\ pc = Idle
    /\ ~crashed
    /\ cleared' = {}
    /\ launchFailed' = FALSE
    /\ startRet' = "none"
    /\ pc' = IF Len(BuffersToClear) > 0 THEN At("startClear", 0, 1) ELSE AfterStartClear
    /\ UNCHANGED << impl, settings, collections, epoch, dataThread, crashed >>

\* source->buffer->clear() / sourceBuffers.getLast()->clear()
StartClear ==
    /\ pc.at = "startClear"
    /\ BuffersToClear[pc.n] # 0
    /\ sourceBuffers' = ClearBuffer(sourceBuffers, BuffersToClear[pc.n])
    /\ cleared' = cleared \cup { BuffersToClear[pc.n] }
    /\ pc' = IF pc.n < Len(BuffersToClear) THEN At("startClear", 0, pc.n + 1)
             ELSE AfterStartClear
    /\ UNCHANGED << impl, settings, dataStreams, eventChannels, continuousChannels,
                    spikeChannels, devices, configurationObjects, sources, epoch,
                    dataThread, launchFailed, startRet, crashed >>

\* sourceBuffers.getLast()->clear() on an empty array: getLast() is nullptr.
\* The call through it is undefined: the process dies, or goes on
StartClearNull ==
    /\ pc.at = "startClear"
    /\ BuffersToClear[pc.n] = 0
    /\ \/ /\ crashed' = TRUE
          /\ pc' = pc
       \/ /\ crashed' = crashed
          /\ pc' = AfterStartClear
    /\ UNCHANGED << impl, settings, collections, epoch, dataThread, cleared,
                    launchFailed, startRet >>

\* source->startThread(), one source
StartLaunch ==
    /\ pc.at = "startLaunch"
    /\ ~crashed
    /\ \E ok \in BOOLEAN, resets \in BOOLEAN :
          /\ sources' = [ sources EXCEPT ![pc.n] = StartThread(@, ok, resets) ]
          /\ launchFailed' = (launchFailed \/ (~sources[pc.n].alive /\ ~ok))
    /\ pc' = IF pc.n < Len(sources) THEN At("startLaunch", 0, pc.n + 1)
             ELSE IF impl = "Sim" THEN At("startReturn", 0, 0)
             ELSE At("startSelf", 0, 0)
    /\ UNCHANGED << impl, settings, dataStreams, eventChannels, continuousChannels,
                    spikeChannels, devices, configurationObjects, sourceBuffers,
                    epoch, dataThread, cleared, startRet, crashed >>

\* this->startThread()
StartSelf ==
    /\ pc.at = "startSelf"
    /\ ~crashed
    /\ \E ok \in BOOLEAN, resets \in BOOLEAN :
          dataThread' = StartThread(dataThread, ok, resets)
    /\ pc' = At("startReturn", 0, 0)
    /\ UNCHANGED << impl, settings, collections, epoch, cleared, launchFailed,
                    startRet, crashed >>

\* return true
StartReturn ==
    /\ pc.at = "startReturn"
    /\ startRet' = StartResult(launchFailed)
    /\ cleared' = {}
    /\ pc' = Idle
    /\ UNCHANGED << impl, settings, collections, epoch, dataThread, launchFailed,
                    crashed >>

\* stopAcquisition is entered
StopAcquisition ==
    /\ pc = Idle
    /\ ~crashed
    /\ pc' = IF Len(sources) > 0 THEN At("stopSignal", 0, 1)
             ELSE At("stopReturn", 0, 0)
    /\ UNCHANGED << impl, settings, collections, epoch, threadVars >>

\* source->signalThreadShouldExit(), one source
StopSignal ==
    /\ pc.at = "stopSignal"
    /\ sources' = [ sources EXCEPT ![pc.n] = SignalThreadShouldExit(@) ]
    /\ pc' = IF pc.n < Len(sources) THEN At("stopSignal", 0, pc.n + 1)
             ELSE At("stopReturn", 0, 0)
    /\ UNCHANGED << impl, settings, dataStreams, eventChannels, continuousChannels,
                    spikeChannels, devices, configurationObjects, sourceBuffers,
                    epoch, threadVars >>

\* if (isThreadRunning()) signalThreadShouldExit();  return true
StopReturn ==
    /\ pc.at = "stopReturn"
    /\ dataThread' = IF impl = "Legacy" /\ dataThread.alive
                     THEN SignalThreadShouldExit(dataThread) ELSE dataThread
    /\ pc' = Idle
    /\ UNCHANGED << impl, settings, collections, epoch, cleared, launchFailed,
                    startRet, crashed >>

\* one iteration of a generator's loop: the exit flag is looked at once; when
\* it is set the loop ends and the thread is gone
GenExit(k) ==
    /\ k \in 1 .. Len(sources)
    /\ sources[k].alive
    /\ sources[k].shouldExit
    /\ ~crashed
    /\ sources' = [ sources EXCEPT ![k].alive = FALSE ]
    /\ UNCHANGED << impl, settings, dataStreams, eventChannels, continuousChannels,
                    spikeChannels, devices, configurationObjects, sourceBuffers,
                    epoch, pc, threadVars >>

\* ... otherwise the next block is written to the bound buffer
GenWrite(k) ==
    /\ k \in 1 .. Len(sources)
    /\ sources[k].alive
    /\ ~sources[k].shouldExit
    /\ ~crashed
    /\ sourceBuffers' = WriteBuffer(sourceBuffers, sources[k].buffer)
    /\ UNCHANGED << impl, settings, dataStreams, eventChannels, continuousChannels,
                    spikeChannels, devices, configurationObjects, sources,
                    epoch, pc, threadVars >>

\* the DataThread's own loop calls updateBuffer() until its exit flag is set
DataThreadExit ==
    /\ dataThread.alive
    /\ dataThread.shouldExit
    /\ ~crashed
    /\ dataThread' = [ dataThread EXCEPT !.alive = FALSE ]
    /\ UNCHANGED << impl, settings, collections, epoch, pc, cleared, launchFailed,
                    startRet, crashed >>

(***************************************************************************)
(* Specifications.                                                         *)
(***************************************************************************)
\* Spec: construction and reconfiguration, over all configurations
Next ==
    \/ UpdateSettings /\ UNCHANGED script
    \/ UpdateNPXChannels(LegacyConfigs) /\ UNCHANGED script
    \/ UpdateNumProbes(LegacyConfigs) /\ UNCHANGED script
    \/ UpdateNIDAQChannels(LegacyConfigs) /\ UNCHANGED script
    \/ UpdateNIDAQDeviceCount(LegacyConfigs) /\ UNCHANGED script
    \/ ClearStep /\ UNCHANGED script
    \/ GetSettings(SimConfigs) /\ UNCHANGED script
    \/ ProbeStep /\ UNCHANGED script
    \/ NidaqStep /\ UNCHANGED script

Spec == Init /\ [][Next]_vars

\* the configurations with few enough sources to follow every thread
RunConfigs ==
    { s \in { Config(p, 1, n, 1) : p \in 0 .. RunMaxSources, n \in 0 .. RunMaxSources } :
        2 * s.numProbes + s.numNIDAQ <= RunMaxSources }

\* the topology a completed rebuild leaves for configuration s
Built(i, s) ==
    ApplyOps(IF i = "Sim" THEN SimAddOps(s) ELSE LegacyAddOps(s), EmptyTopology, 0)

\* the controller is idle with the topology of a small configuration built
RunInit ==
    /\ \E i \in { "Sim", "Legacy" }, s \in RunConfigs :
          /\ impl = i
          /\ settings = s
          /\ dataStreams = Built(i, s).dataStreams
          /\ eventChannels = Built(i, s).eventChannels
          /\ continuousChannels = Built(i, s).continuousChannels
          /\ spikeChannels = Built(i, s).spikeChannels
          /\ devices = Built(i, s).devices
          /\ configurationObjects = Built(i, s).configurationObjects
          /\ sources = Built(i, s).sources
          /\ sourceBuffers = Built(i, s).sourceBuffers
    /\ epoch = 0
    /\ pc = Idle
    /\ dataThread = NoThread
    /\ cleared = {}
    /\ launchFailed = FALSE
    /\ startRet = "none"
    /\ crashed = FALSE
    /\ script = 0

GenIterate(k) == GenExit(k) \/ GenWrite(k)

\* RunSpec: start, stop, reconfiguration and the generator threads, in any order
RunNext ==
    \/ UpdateSettings /\ UNCHANGED script
    \/ UpdateNPXChannels(RunConfigs) /\ UNCHANGED script
    \/ UpdateNumProbes(RunConfigs) /\ UNCHANGED script
    \/ UpdateNIDAQChannels(RunConfigs) /\ UNCHANGED script
    \/ UpdateNIDAQDeviceCount(RunConfigs) /\ UNCHANGED script
    \/ ClearStep /\ UNCHANGED script
    \/ GetSettings(RunConfigs) /\ UNCHANGED script
    \/ ProbeStep /\ UNCHANGED script
    \/ NidaqStep /\ UNCHANGED script
    \/ StartAcquisition /\ UNCHANGED script
    \/ StartClear /\ UNCHANGED script
    \/ StartClearNull /\ UNCHANGED script
    \/ StartLaunch /\ UNCHANGED script
    \/ StartSelf /\ UNCHANGED script
    \/ StartReturn /\ UNCHANGED script
    \/ StopAcquisition /\ UNCHANGED script
    \/ StopSignal /\ UNCHANGED script
    \/ StopReturn /\ UNCHANGED script
    \/ \E k \in 1 .. Len(sources) : GenExit(k) /\ UNCHANGED script
    \/ \E k \in 1 .. Len(sources) : GenWrite(k) /\ UNCHANGED script
    \/ DataThreadExit /\ UNCHANGED script

RunSpec == RunInit /\ [][RunNext]_vars

\* LiveSpec: one start() followed by one stop() and nothing else, the
\* generator threads running meanwhile; every generator loop that can make
\* an iteration eventually makes one
LiveNext ==
    \/ StartAcquisition /\ script = 0 /\ script' = 1
    \/ StartClear /\ UNCHANGED script
    \/ StartClearNull /\ UNCHANGED script
    \/ StartLaunch /\ UNCHANGED script
    \/ StartSelf /\ UNCHANGED script
    \/ StartReturn /\ UNCHANGED script
    \/ StopAcquisition /\ script = 1 /\ script' = 2
    \/ StopSignal /\ UNCHANGED script
    \/ StopReturn /\ UNCHANGED script
    \/ \E k \in 1 .. Len(sources) : GenExit(k) /\ UNCHANGED script
    \/ \E k \in 1 .. Len(sources) : GenWrite(k) /\ UNCHANGED script
    \/ DataThreadExit /\ UNCHANGED script

LiveSpec ==
    /\ RunInit
    /\ [][LiveNext]_vars
    /\ \A k \in 1 .. RunMaxSources : WF_vars(GenIterate(k) /\ UNCHANGED script)

(***************************************************************************)
(* Queries of SourceThread.                                                *)
(***************************************************************************)
\* SourceThread::getNumTTLOutputs(subProcessorIdx)
GetNumTTLOutputs(subProcessorIdx) ==
    IF subProcessorIdx < 2 * settings.numProbes THEN 1
    ELSE settings.channelsPerNIDAQ

\* SourceThread::getNumDataOutputs(type, subProcessorIdx)
GetNumDataOutputs(type, subProcessorIdx) ==
    IF type = "HEADSTAGE_CHANNEL" /\ subProcessorIdx < 2 * settings.numProbes
    THEN sources[subProcessorIdx + 1].numChannels
    ELSE IF type = "ADC_CHANNEL" /\ subProcessorIdx >= 2 * settings.numProbes
    THEN sources[subProcessorIdx + 1].numChannels
    ELSE 0

(***************************************************************************)
(* Properties.                                                             *)
(***************************************************************************)
\* the name and the rate the ordering contract gives position k (from 1)
ExpectedName(k, s) ==
    IF k <= 2 * s.numProbes
    THEN << "P", "r", "o", "b", "e", "-", probeNames[(k - 1) \div 2 + 1], "-" >>
         \o (IF k % 2 = 1 THEN << "A", "P" >> ELSE << "L", "F", "P" >>)
    ELSE << "D", "e", "v" >> \o DecimalString(k - 2 * s.numProbes - 1)

ExpectedRate(k, s) ==
    IF k <= 2 * s.numProbes THEN (IF k % 2 = 1 THEN 30000 ELSE 2500) ELSE 30000

ChannelsOf(k) == { c \in 1 .. Len(continuousChannels) : continuousChannels[c].stream = k }

SyncLinesOf(k) == { e \in 1 .. Len(eventChannels) : eventChannels[e].stream = k }

ConfiguredChannels(k) ==
    IF k <= 2 * settings.numProbes THEN settings.channelsPerProbe
    ELSE settings.channelsPerNIDAQ

Valid(s) ==
    /\ s.numProbes >= 0
    /\ s.numProbes <= Len(probeNames)
    /\ s.channelsPerProbe >= 0
    /\ s.numNIDAQ >= 0
    /\ s.channelsPerNIDAQ >= 0

\* C2: after a build every stream has exactly one TTL sync line and its
\* configured number of continuous channels; an auxiliary device with 8
\* channels reports 1 sync line.
C2_OneSyncLinePerStream ==
    (pc = Idle /\ Valid(settings))
    => IF impl = "Sim"
       THEN \A k \in 1 .. Len(dataStreams) :
               /\ Cardinality(SyncLinesOf(k)) = 1
               /\ \A e \in SyncLinesOf(k) : eventChannels[e].type = "TTL"
               /\ Cardinality(ChannelsOf(k)) = ConfiguredChannels(k)
       ELSE \A idx \in 0 .. Len(sources) - 1 :
               /\ GetNumTTLOutputs(idx) = 1
               /\ GetNumDataOutputs("HEADSTAGE_CHANNEL", idx)
                    + GetNumDataOutputs("ADC_CHANNEL", idx) = ConfiguredChannels(idx + 1)

EpochsOf(arr) == { arr[k].epoch : k \in 1 .. Len(arr) }

EpochsHeld ==
    EpochsOf(dataStreams) \cup EpochsOf(eventChannels) \cup EpochsOf(continuousChannels)
    \cup EpochsOf(spikeChannels) \cup EpochsOf(devices)
    \cup EpochsOf(configurationObjects) \cup EpochsOf(sources) \cup EpochsOf(sourceBuffers)

C4_AllClearedBeforeLaunch ==
    pc.at = "startLaunch"
    => cleared = { sourceBuffers[k].id : k \in 1 .. Len(sourceBuffers) }

\* C5: when a generator thread failed to launch during start(), start()
\* returns false.
C5_FailureReported ==
    (pc = Idle /\ startRet # "none" /\ launchFailed) => startRet = "false"

\* no entity of the collection was created by the last rebuild
NoneCreated(arr) == \A k \in 1 .. Len(arr) : arr[k].epoch # epoch

\* C6: a configuration with numProbes > 16 or a negative count is rejected:
\* no stream, channel, sync line, source or buffer is created for it.
C6_InvalidRejected ==
    (pc = Idle /\ ~Valid(settings))
    => /\ NoneCreated(dataStreams)
       /\ NoneCreated(eventChannels)
       /\ NoneCreated(continuousChannels)
       /\ NoneCreated(sources)
       /\ NoneCreated(sourceBuffers)

\* C7: a rebuild destroys the sources only when no generator thread is alive.
C7_RebuildOnlyWhenStopped ==
    [][ (pc.at = "clearing" /\ sources # << >> /\ sources' = << >>)
        => \A k \in 1 .. Len(sources) : ~sources[k].alive ]_vars

StopReturned == script = 2 /\ pc = Idle

NoGeneratorAlive == \A k \in 1 .. Len(sources) : ~sources[k].alive

\* C8: when stop() has returned after start(), every generator has been
\* signalled; eventually no generator thread is alive, and from then on it
\* stays so and no buffer is written.
C8_StopQuiesces ==
    /\ [](StopReturned => \A k \in 1 .. Len(sources) : sources[k].shouldExit)
    /\ (StopReturned ~> [](NoGeneratorAlive))
    /\ [][ (StopReturned /\ NoGeneratorAlive) => sourceBuffers' = sourceBuffers ]_vars

C8_Witness ==
    /\ StopReturned
    /\ \E k \in 1 .. Len(sources) : sources[k].alive
    /\ \E k \in 1 .. Len(sourceBuffers) : sourceBuffers[k].written

\* the four states of a generator
StateOf(t) ==
    IF t.alive THEN (IF t.shouldExit THEN "StopRequested" ELSE "Running")
    ELSE IF t.started THEN "Stopped" ELSE "Idle"

Rank(t) ==
    CASE StateOf(t) = "Idle" -> 0
      [] StateOf(t) = "Running" -> 1
      [] StateOf(t) = "StopRequested" -> 2
      [] StateOf(t) = "Stopped" -> 3

\* position k holds the same source object before and after the step
SameObject(k) ==
    /\ k <= Len(sources')
    /\ sources'[k].epoch = sources[k].epoch

C10_BoundOneToOne ==
    pc = Idle
    => /\ Len(sources) = Len(sourceBuffers)
       /\ \A k \in 1 .. Len(sources) :
             /\ sources[k].buffer = sourceBuffers[k].id
             /\ sourceBuffers[k].numChannels = sources[k].numChannels
             /\ \A j \in 1 .. Len(sources) :
                   j # k => /\ sourceBuffers[j].id # sources[k].buffer
                            /\ sources[j].buffer # sources[k].buffer

C10_Witness ==
    /\ pc = Idle
    /\ epoch # 0
    /\ Len(sources) >= 3
    /\ sources[1].numChannels # sources[Len(sources)].numChannels

=============================================================================
